---- MODULE Spec2Model ----
(***************************************************************************)
(* A model of pdf_diff_gen: the difference segment builder, the pixel      *)
(* comparator, the page matcher and document comparator (src/src/pdf.rs),  *)
(* the document annotator (pdf.rs, PDFEditor), the update detector and the *)
(* batch pass (src/src/files.rs).                                          *)
(*                                                                         *)
(* Each component has its own specification over its own variables; the    *)
(* variables of the other components stay at their idle values.            *)
(***************************************************************************)
EXTENDS Integers, Sequences, FiniteSets, TLC

VARIABLES
    \* DifferenceSegementsBuilder (pdf.rs:57-60) and the stream it was fed
    segments, current_segment, fed, finished,
    \* compare_images (pdf.rs:264-277): its two arguments, the shared atomic
    \* counter, the pixel tasks of the parallel loops not yet run, where the
    \* call stands, and what it returned
    img_a, img_b, similarity, pending, px_pc, px_ret,
    \* compare_pdfs (pdf.rs:178-225): the two load results, where the call
    \* stands, the page similarities and verdicts collected so far, what it
    \* returned, and a record of the render calls made and of those that failed
    pdf_a, pdf_b, cmp_pc, page_similarities, verdicts, cmp_ret, renders, render_failed,
    \* PDFEditor::mark_differences (pdf.rs:335-372): its differences argument,
    \* the live document, the position of the loop, page_shift, where the call
    \* stands, what it returned, the document saved to out_path, a record of
    \* the page fetches made, and whether an engine call has failed
    differences, pdf, ann_index, page_shift, ann_pc, ann_ret, saved, fetched, engine_failed,
    \* FileManager::find_updated_files (files.rs:205-264): the current and
    \* the baseline directory tree, where the call stands, what it returned
    current_tree, last_tree, fs_pc, fs_ret,
    \* The main loop and FileManager::update (main.rs:28-50, files.rs:103-203):
    \* the files below current_path, last_path and diff_path, the clock, where
    \* the pass stands, its maps updated_files, comparsions and updated_pdfs,
    \* what update returned, and the number of passes completed
    current_files, last_files, diff_files, now, pass_pc, updated_files, comparsions,
    updated_pdfs, pass_ret, passes,
    \* A record of the pass: the baseline files as the pass found them, and the
    \* files for which a rendering, an engine call of the annotator, the
    \* create_dir_all or the copy failed
    last_before, render_fail, engine_fail, mkdir_fail, copy_fail,
    \* Whether the copies of the pass kept the modification time of their
    \* source, and what update returned in the pass before
    copy_kept, prev_ret

builderVars == <<segments, current_segment, fed, finished>>
pixelVars == <<img_a, img_b, similarity, pending, px_pc, px_ret>>
compareVars ==
    <<pdf_a, pdf_b, cmp_pc, page_similarities, verdicts, cmp_ret, renders, render_failed>>
annotateVars ==
    <<differences, pdf, ann_index, page_shift, ann_pc, ann_ret, saved, fetched, engine_failed>>
detectVars == <<current_tree, last_tree, fs_pc, fs_ret>>
passVars ==
    <<current_files, last_files, diff_files, now, pass_pc, updated_files, comparsions,
      updated_pdfs, pass_ret, passes, last_before, render_fail, engine_fail, mkdir_fail,
      copy_fail, copy_kept, prev_ret>>

vars == <<builderVars, pixelVars, compareVars, annotateVars, detectVars, passVars>>
notBuilder == <<pixelVars, compareVars, annotateVars, detectVars, passVars>>
notPixel == <<builderVars, compareVars, annotateVars, detectVars, passVars>>
notCompare == <<builderVars, pixelVars, annotateVars, detectVars, passVars>>
notAnnotate == <<builderVars, pixelVars, compareVars, detectVars, passVars>>
notDetect == <<builderVars, pixelVars, compareVars, annotateVars, passVars>>
notPass == <<builderVars, pixelVars, compareVars, annotateVars, detectVars>>

----------------------------------------------------------------------------
(* Option<T>: None, or Some(v) as a one-element sequence.                  *)
None == <<>>
Some(v) == <<v>>
IsSome(o) == o # None
Unwrap(o) == o[1]

----------------------------------------------------------------------------
(* DifferenceSegementsBuilder, pdf.rs:57-99.  A builder value is the pair   *)
(* of fields [segments, current_segment]; a position is any value (the     *)
(* builder only stores it).                                                *)

\* The largest position of a stream fed to the builder.
MaxPos == 4
Positions == 0..MaxPos

\* DifferenceSegementsBuilder::build
build == [segments |-> <<>>, current_segment |-> None]

\* A step that forgets to close the open segment on a miss.
step_noclose(b, position, hit) ==
    IF IsSome(b.current_segment)
    THEN IF hit
         THEN [b EXCEPT !.current_segment = Some(<<Unwrap(b.current_segment)[1], position>>)]
         ELSE [b EXCEPT !.current_segment = None]
    ELSE IF hit
         THEN [b EXCEPT !.current_segment = Some(<<position, position>>)]
         ELSE b

\* DifferenceSegementsBuilder::step
step(b, position, hit) ==
    IF IsSome(b.current_segment)
    THEN IF hit
         THEN [b EXCEPT !.current_segment = Some(<<Unwrap(b.current_segment)[1], position>>)]
         ELSE [segments |-> Append(b.segments, Unwrap(b.current_segment)),
               current_segment |-> None]
    ELSE IF hit
         THEN [b EXCEPT !.current_segment = Some(<<position, position>>)]
         ELSE b

\* DifferenceSegementsBuilder::finish
finish(b) ==
    IF IsSome(b.current_segment)
    THEN Append(b.segments, Unwrap(b.current_segment))
    ELSE b.segments

BuilderInit ==
    /\ segments = <<>>
    /\ current_segment = None
    /\ fed = <<>>
    /\ finished = FALSE

\* One call of step with a position above every position fed so far.
BuilderStep ==
    /\ ~finished
    /\ \E position \in Positions, hit \in BOOLEAN :
          /\ \A k \in 1..Len(fed) : fed[k][1] < position
          /\ LET b == step([segments |-> segments, current_segment |-> current_segment],
                           position, hit)
             IN  /\ segments' = b.segments
                 /\ current_segment' = b.current_segment
          /\ fed' = Append(fed, <<position, hit>>)
    /\ UNCHANGED <<finished, notBuilder>>

\* The call of finish, which consumes the builder.
BuilderFinish ==
    /\ ~finished
    /\ segments' = finish([segments |-> segments, current_segment |-> current_segment])
    /\ current_segment' = None
    /\ finished' = TRUE
    /\ UNCHANGED <<fed, notBuilder>>



----------------------------------------------------------------------------
(* RgbImage: width, height and the rows of pixels, px[y + 1][x + 1] being   *)
(* the pixel at (x, y).                                                    *)

\* The largest raster of the pixel comparator's inputs.
MaxWidth == 2
MaxHeight == 2
Colours == {0, 1}

Rasters(w, h) ==
    {[width |-> w, height |-> h, px |-> p] : p \in [1..h -> [1..w -> Colours]]}
AllRasters == UNION {Rasters(w, h) : w \in 1..MaxWidth, h \in 1..MaxHeight}
\* The rasters of one colour.  Whether two pixels differ is all the
\* comparator reads, so one argument ranges over these and the other over
\* every raster: every pattern of equal and unequal pixels occurs.
UniformRasters ==
    {r \in AllRasters : \A y \in 1..r.height, x \in 1..r.width : r.px[y][x] = r.px[1][1]}

dimensions(img) == <<img.width, img.height>>
get_pixel(img, x, y) == img.px[y + 1][x + 1]
rows(img) == img.px

\* enum Similiarity, pdf.rs:106-110
SimDifferent == <<"Different">>
SimSimilar(n) == <<"Similar", n>>

\* A plain store in place of the atomic read-modify-write.
fetch_add_store(counter, v) == v

\* AtomicUsize::fetch_add (pdf.rs:272): the value the counter holds afterwards.
\* usize wraps at 2^64, far above any pixel count of a rendered page.
fetch_add(counter, v) == counter + v

\* The pixel positions at which two rasters of equal dimensions differ.
DifferingPositions(a, b) ==
    {xy \in (0..a.width - 1) \X (0..a.height - 1) :
        get_pixel(a, xy[1], xy[2]) # get_pixel(b, xy[1], xy[2])}

\* compare_images as a function of its arguments: what the call returns once
\* every pixel task has run (C6 checks the parallel loop against it).
compare_images(a, b) ==
    IF dimensions(a) # dimensions(b)
    THEN SimDifferent
    ELSE SimSimilar(Cardinality(DifferingPositions(a, b)))

PixelIdle ==
    /\ img_a = None
    /\ img_b = None
    /\ similarity = 0
    /\ pending = {}
    /\ px_pc = "idle"
    /\ px_ret = None

PixelInit ==
    /\ img_a \in UniformRasters
    /\ img_b \in AllRasters
    /\ similarity = 0
    /\ pending = {}
    /\ px_pc = "call"
    /\ px_ret = None

\* pdf.rs:265-268: the counter is created, and rasters of different
\* dimensions return at once.
CompareImagesMismatch ==
    /\ px_pc = "call"
    /\ dimensions(img_a) # dimensions(img_b)
    /\ px_ret' = Some(SimDifferent)
    /\ px_pc' = "done"
    /\ UNCHANGED <<img_a, img_b, similarity, pending, notPixel>>

\* pdf.rs:269-270: the nested parallel loops over x and y, one task a pixel.
CompareImagesFork ==
    /\ px_pc = "call"
    /\ dimensions(img_a) = dimensions(img_b)
    /\ pending' = (0..dimensions(img_a)[1] - 1) \X (0..dimensions(img_a)[2] - 1)
    /\ px_pc' = "loop"
    /\ UNCHANGED <<img_a, img_b, similarity, px_ret, notPixel>>

\* pdf.rs:271-273: one pixel task, run in any order with the others.
PixelTask ==
    /\ px_pc = "loop"
    /\ \E xy \in pending :
          /\ similarity' = IF get_pixel(img_a, xy[1], xy[2]) # get_pixel(img_b, xy[1], xy[2])
                           THEN fetch_add(similarity, 1)
                           ELSE similarity
          /\ pending' = pending \ {xy}
    /\ UNCHANGED <<img_a, img_b, px_pc, px_ret, notPixel>>

\* pdf.rs:276: every task has joined; the counter is read.
CompareImagesJoin ==
    /\ px_pc = "loop"
    /\ pending = {}
    /\ px_ret' = Some(SimSimilar(similarity))
    /\ px_pc' = "done"
    /\ UNCHANGED <<img_a, img_b, similarity, pending, notPixel>>

----------------------------------------------------------------------------
(* Result<T, E>.                                                           *)
Ok(v) == <<"Ok", v>>
Err(e) == <<"Err", e>>
IsOk(r) == r[1] = "Ok"
IsErr(r) == r[1] = "Err"

----------------------------------------------------------------------------
(* f64 values that arise from small integers: a fraction <<n, d>> in       *)
(* lowest terms, or NaN for 0.0 / 0.0.  Distinct fractions of the sizes    *)
(* modelled are distinct doubles, ordered as the fractions are.            *)
RECURSIVE Gcd(_, _)
Gcd(a, b) == IF b = 0 THEN a ELSE Gcd(b, a % b)
NaN == <<0, 0>>
Infinity == <<1, 0>>
F64(n) == <<n, 1>>
\* a as f64 / b as f64, for naturals a and b
F64Div(a, b) ==
    IF b = 0
    THEN IF a = 0 THEN NaN ELSE Infinity
    ELSE <<a \div Gcd(a, b), b \div Gcd(a, b)>>

----------------------------------------------------------------------------
(* Comparison::from_similarity, pdf.rs:18-55.                              *)

\* enum PageSimilarity, pdf.rs:123-127
PageDifferent == <<"Different">>
PageSimilar(index, sim) == <<"Similar", index, sim>>

\* enum Comparison, pdf.rs:12-16
Identical == <<"Identical">>
Different(segs) == <<"Different", segs>>
FullPage == Different(<<<<F64(0), F64(1)>>>>)

\* pdf.rs:41-47: whether rows r_a and r_b hold the same pixels
rows_equal(r_a, r_b) == \A x \in 1..Len(r_a) : r_a[x] = r_b[x]

\* pdf.rs:36-49: the rows of both rasters zipped, each fed to the builder
RECURSIVE feed_rows(_, _, _, _, _)
feed_rows(b, ra, rb, index, num_rows) ==
    IF index >= Len(ra) \/ index >= Len(rb)
    THEN b
    ELSE feed_rows(step(b, F64Div(index, num_rows - 1),
                        ~rows_equal(ra[index + 1], rb[index + 1])),
                   ra, rb, index + 1, num_rows)

\* from_similarity with the test of the distance inverted.
from_similarity_inverted(sim, a, b) ==
    IF sim = PageDifferent
    THEN FullPage
    ELSE IF sim[3] # 0
         THEN Identical
         ELSE Different(finish(feed_rows(build, rows(Unwrap(a)), rows(Unwrap(b)), 0,
                                         Len(rows(Unwrap(a))))))

\* Comparison::from_similarity; a and b are Option<RgbImage>
from_similarity(sim, a, b) ==
    IF sim = PageDifferent
    THEN FullPage
    ELSE IF sim[3] = 0
         THEN Identical
         ELSE Different(finish(feed_rows(build, rows(Unwrap(a)), rows(Unwrap(b)), 0,
                                         Len(rows(Unwrap(a))))))

----------------------------------------------------------------------------
(* The page matcher, pdf.rs:106-121 and 240-262.                           *)

\* Similiarity::cmp
sim_cmp(self, other) ==
    CASE self = SimDifferent /\ other = SimDifferent -> "Equal"
      [] self = SimDifferent /\ other # SimDifferent -> "Greater"
      [] self # SimDifferent /\ other = SimDifferent -> "Less"
      [] OTHER -> IF self[2] < other[2] THEN "Less"
                  ELSE IF self[2] > other[2] THEN "Greater" ELSE "Equal"

\* A minimum that keeps the later of two equal elements.
RECURSIVE min_by_last_from(_, _, _)
min_by_last_from(s, k, x) ==
    IF k > Len(s)
    THEN x
    ELSE min_by_last_from(s, k + 1, IF sim_cmp(x[2], s[k][2]) = "Less" THEN x ELSE s[k])
min_by_last(s) == IF s = <<>> THEN None ELSE Some(min_by_last_from(s, 2, s[1]))

\* Iterator::min_by over (index, Similiarity) pairs with |a, b| a.1.cmp(&b.1)
\* (pdf.rs:255): a fold that replaces the element kept only by a strictly
\* smaller one, so the first of several minima is returned.
RECURSIVE min_by_from(_, _, _)
min_by_from(s, k, x) ==
    IF k > Len(s)
    THEN x
    ELSE min_by_from(s, k + 1, IF sim_cmp(x[2], s[k][2]) = "Greater" THEN s[k] ELSE x)
min_by(s) == IF s = <<>> THEN None ELSE Some(min_by_from(s, 2, s[1]))

\* A document is the sequence of its pages' renderings; page i is doc[i + 1].
page_count(doc) == Len(doc)

\* PDFComparison::render_pdf_page, pdf.rs:279-292.  fail says whether the
\* engine fails this call (the page lookup or the rendering itself).
render_pdf_page(doc, page, fail) ==
    IF fail THEN Err("UnableToRenderPDF") ELSE Ok(doc[page + 1])

\* A matcher that leaves out the baseline pages whose rendering fails.
find_min_similarity_skip(img, doc_b, failing) ==
    LET kept == {i \in 0..page_count(doc_b) - 1 : i \notin failing}
        dists == [i \in kept |-> compare_images(img, doc_b[i + 1])]
        good == {i \in kept : dists[i] # SimDifferent}
    IN  IF good = {}
        THEN Ok(PageDifferent)
        ELSE LET j == CHOOSE i \in good :
                         \A k \in good : dists[i][2] < dists[k][2]
                                         \/ (dists[i][2] = dists[k][2] /\ i <= k)
             IN  Ok(PageSimilar(j, dists[j][2]))

\* PDFComparison::find_min_similarity.  failing is the set of baseline pages
\* whose rendering fails during this call; the first of them ends the call.
find_min_similarity(img, doc_b, failing) ==
    IF \E i \in 0..page_count(doc_b) - 1 : IsErr(render_pdf_page(doc_b, i, i \in failing))
    THEN Err("UnableToRenderPDF")
    ELSE LET comparisons ==
                 [k \in 1..page_count(doc_b) |->
                     <<k - 1, compare_images(img, render_pdf_page(doc_b, k - 1, FALSE)[2])>>]
             m == min_by(comparisons)
         IN  Ok(IF IsSome(m)
                THEN IF Unwrap(m)[2] # SimDifferent
                     THEN PageSimilar(Unwrap(m)[1], Unwrap(m)[2][2])
                     ELSE PageDifferent
                ELSE PageDifferent)

\* The render calls find_min_similarity makes: every baseline page up to and
\* including the first that fails.
baseline_renders(doc_b, failing) ==
    Cardinality({i \in 0..page_count(doc_b) - 1 : \A k \in 0..i - 1 : k \notin failing})

----------------------------------------------------------------------------
(* PDFComparison::compare_pdfs, pdf.rs:178-225.                            *)

\* The most pages of a document compared.
MaxPages == 2

\* The renderings a page may have: three of equal size (PageB differs from
\* PageA in its first and last row, PageC in its middle row) and two of one
\* row.
PageA == [width |-> 2, height |-> 3, px |-> <<<<0, 0>>, <<0, 0>>, <<0, 0>>>>]
PageB == [width |-> 2, height |-> 3, px |-> <<<<1, 1>>, <<0, 0>>, <<0, 1>>>>]
PageC == [width |-> 2, height |-> 3, px |-> <<<<0, 0>>, <<1, 0>>, <<0, 0>>>>]
PageD == [width |-> 2, height |-> 1, px |-> <<<<0, 0>>>>]
PageE == [width |-> 2, height |-> 1, px |-> <<<<0, 1>>>>]
PagePalette == {PageA, PageB, PageC, PageD, PageE}

Documents == UNION {[1..n -> PagePalette] : n \in 0..MaxPages}
\* Pdfium::load_pdf_from_file: the document, or an error
LoadResults == {Err("PdfiumError")} \cup {Ok(d) : d \in Documents}

\* A comparator for which a baseline that fails to load is an error.
load_outcome_strict(la, lb) ==
    IF IsOk(la) /\ IsOk(lb)
    THEN None
    ELSE Some(Err("UnableToLoadPDF"))

\* pdf.rs:187-199: None when both documents loaded, else what compare_pdfs
\* returns at once.
load_outcome(la, lb) ==
    IF IsOk(la) /\ IsOk(lb)
    THEN None
    ELSE IF IsOk(la)
         THEN Some(Ok([k \in 1..page_count(la[2]) |-> FullPage]))
         ELSE Some(Err("UnableToLoadPDF"))

CompareIdle ==
    /\ pdf_a = None
    /\ pdf_b = None
    /\ cmp_pc = "idle"
    /\ page_similarities = <<>>
    /\ verdicts = <<>>
    /\ cmp_ret = None
    /\ renders = 0
    /\ render_failed = FALSE

CompareInit ==
    /\ pdf_a \in LoadResults
    /\ pdf_b \in LoadResults
    /\ cmp_pc = "load"
    /\ page_similarities = <<>>
    /\ verdicts = <<>>
    /\ cmp_ret = None
    /\ renders = 0
    /\ render_failed = FALSE

\* pdf.rs:185-199
CompareLoad ==
    /\ cmp_pc = "load"
    /\ LET o == load_outcome(pdf_a, pdf_b)
       IN  IF IsSome(o)
           THEN cmp_ret' = o /\ cmp_pc' = "done"
           ELSE cmp_ret' = cmp_ret /\ cmp_pc' = "match"
    /\ UNCHANGED <<pdf_a, pdf_b, page_similarities, verdicts, renders, render_failed, notCompare>>

\* pdf.rs:232-236: one iteration of find_min_similarity_for_pdf, for the next
\* revised page; the first error ends compare_pdfs (pdf.rs:201).
MatchPage ==
    /\ cmp_pc = "match"
    /\ Len(page_similarities) < page_count(pdf_a[2])
    /\ \E fail_a \in BOOLEAN, failing \in SUBSET (0..page_count(pdf_b[2]) - 1) :
          LET a == Len(page_similarities)
              img == render_pdf_page(pdf_a[2], a, fail_a)
              r == IF IsErr(img) THEN img ELSE find_min_similarity(img[2], pdf_b[2], failing)
          IN  /\ renders' = renders + 1
                            + (IF IsErr(img) THEN 0 ELSE baseline_renders(pdf_b[2], failing))
              /\ render_failed' = (render_failed \/ fail_a \/ failing # {})
              /\ IF IsErr(r)
                 THEN /\ cmp_ret' = Some(r)
                      /\ cmp_pc' = "done"
                      /\ UNCHANGED page_similarities
                 ELSE /\ page_similarities' = Append(page_similarities, r[2])
                      /\ UNCHANGED <<cmp_ret, cmp_pc>>
    /\ UNCHANGED <<pdf_a, pdf_b, verdicts, notCompare>>

\* pdf.rs:237, 201: every revised page has its similarity
MatchCollected ==
    /\ cmp_pc = "match"
    /\ Len(page_similarities) = page_count(pdf_a[2])
    /\ cmp_pc' = "verdict"
    /\ UNCHANGED <<pdf_a, pdf_b, page_similarities, verdicts, cmp_ret, renders,
                   render_failed, notCompare>>

\* pdf.rs:208-223: one iteration of the verdict loop
VerdictPage ==
    /\ cmp_pc = "verdict"
    /\ Len(verdicts) < Len(page_similarities)
    /\ LET index == Len(verdicts)
           sim == page_similarities[index + 1]
       IN  IF sim = PageDifferent
           THEN /\ verdicts' = Append(verdicts, from_similarity(sim, None, None))
                /\ UNCHANGED <<cmp_ret, cmp_pc, renders, render_failed>>
           ELSE \E fail_a \in BOOLEAN, fail_b \in BOOLEAN :
                   LET ra == render_pdf_page(pdf_a[2], index, fail_a)
                       rb == render_pdf_page(pdf_b[2], sim[2], fail_b)
                   IN  IF IsErr(ra) \/ IsErr(rb)
                       THEN /\ cmp_ret' = Some(IF IsErr(ra) THEN ra ELSE rb)
                            /\ cmp_pc' = "done"
                            /\ renders' = renders + (IF IsErr(ra) THEN 1 ELSE 2)
                            /\ render_failed' = TRUE
                            /\ UNCHANGED verdicts
                       ELSE /\ verdicts' = Append(verdicts,
                                                 from_similarity(sim, Some(ra[2]), Some(rb[2])))
                            /\ renders' = renders + 2
                            /\ UNCHANGED <<cmp_ret, cmp_pc, render_failed>>
    /\ UNCHANGED <<pdf_a, pdf_b, page_similarities, notCompare>>

\* pdf.rs:224: the verdicts are collected and returned
VerdictCollected ==
    /\ cmp_pc = "verdict"
    /\ Len(verdicts) = Len(page_similarities)
    /\ cmp_ret' = Some(Ok(verdicts))
    /\ cmp_pc' = "done"
    /\ UNCHANGED <<pdf_a, pdf_b, page_similarities, verdicts, renders, render_failed, notCompare>>

----------------------------------------------------------------------------
(* PDFEditor::mark_differences and mark_page_differences, pdf.rs:335-404.  *)

\* The most verdicts handed to mark_differences.
MaxVerdicts == 4
\* The width and height, in points, of the pages annotated.
PageWidthPt == 3
PageHeightPt == 2

\* i16 and u16 (pdf.rs:346, 355): 2^16 values, the signed ones from -2^15.
U16Modulus == 65536
I16Min == -32768
\* n as u16 and n as i16 (wrapping casts and arithmetic)
ToU16(n) == n % U16Modulus
ToI16(n) == ((n - I16Min) % U16Modulus) + I16Min

\* A page index that leaves page_shift out.
page_index_unshifted(index, shift) == ToU16(ToI16(index))

\* (index as i16 + page_shift) as u16, pdf.rs:355 and 361
page_index(index, shift) == ToU16(ToI16(ToI16(index) + shift))

\* floor(height as f64 * f) as u32 (pdf.rs:386-387); NaN casts to 0
FloorMul(height, f) ==
    IF f[2] = 0 THEN 0 ELSE (height * f[1]) \div f[2]

Min(a, b) == IF a < b THEN a ELSE b

\* pdf.rs:380-393: the overlay painted for a page of the given size: the
\* rows painted red in columns 0..min(10, image_width), and the segments
\* they were painted from.
overlay(width, height, segs) ==
    [segments |-> segs,
     columns |-> Min(10, width * 5),
     painted |-> UNION {FloorMul(height * 5, segs[k][1])..(FloorMul(height * 5, segs[k][2]) - 1)
                        : k \in 1..Len(segs)}]

\* The document at in_path: page i of n, as yet without overlay
OriginalDocument(n) ==
    [k \in 1..n |-> [orig |-> k - 1, width |-> PageWidthPt, height |-> PageHeightPt,
                     overlays |-> <<>>]]

\* A delete that leaves the page in place.
delete_page_keep(doc, idx) == doc

\* PdfPage::delete on the page at idx (pdf.rs:353-356): the page is removed
\* and the later pages move down by one.  The code discards delete's Result.
delete_page(doc, idx) ==
    [k \in 1..Len(doc) - 1 |-> IF k <= idx THEN doc[k] ELSE doc[k + 1]]

\* pdf.rs:400: the image object added to the page at idx
add_image_object(doc, idx, o) ==
    [doc EXCEPT ![idx + 1].overlays = Append(@, o)]

\* The segment lists of the Different verdicts annotated.
SegmentChoices ==
    {<<<<F64(0), F64(1)>>>>,
     <<<<F64Div(1, 2), F64(1)>>>>,
     <<<<F64(0), F64(0)>>, <<F64(1), F64(1)>>>>}
VerdictChoices == {Identical} \cup {Different(sg) : sg \in SegmentChoices}

AnnotateIdle ==
    /\ differences = <<>>
    /\ pdf = <<>>
    /\ ann_index = 0
    /\ page_shift = 0
    /\ ann_pc = "idle"
    /\ ann_ret = None
    /\ saved = None
    /\ fetched = <<>>
    /\ engine_failed = FALSE

AnnotateInit ==
    /\ differences \in UNION {[1..n -> VerdictChoices] : n \in 0..MaxVerdicts}
    /\ pdf = <<>>
    /\ ann_index = 0
    /\ page_shift = 0
    /\ ann_pc = "load"
    /\ ann_ret = None
    /\ saved = None
    /\ fetched = <<>>
    /\ engine_failed = FALSE

\* pdf.rs:341-346: the document at in_path is loaded; it has one page a
\* verdict, the verdicts being those of compare_pdfs for the same file.
AnnotateLoad ==
    /\ ann_pc = "load"
    /\ \E ok \in BOOLEAN :
          IF ok
          THEN /\ pdf' = OriginalDocument(Len(differences))
               /\ ann_pc' = "loop"
               /\ UNCHANGED <<ann_ret, engine_failed>>
          ELSE /\ ann_ret' = Some(Err("UnableToLoadPDF"))
               /\ ann_pc' = "done"
               /\ engine_failed' = TRUE
               /\ UNCHANGED pdf
    /\ UNCHANGED <<differences, ann_index, page_shift, saved, fetched, notAnnotate>>

\* pdf.rs:352-359: an Identical verdict.  ok says whether the engine's page
\* fetch succeeds; it fails in any case for an index past the last page.
AnnotateIdentical ==
    /\ ann_pc = "loop"
    /\ ann_index < Len(differences)
    /\ differences[ann_index + 1] = Identical
    /\ \E ok \in BOOLEAN :
          LET idx == page_index(ann_index, page_shift)
          IN  /\ fetched' = Append(fetched,
                     [index |-> idx, shift |-> page_shift,
                      page |-> IF idx < Len(pdf) THEN Some(pdf[idx + 1].orig) ELSE None])
              /\ IF ok /\ idx < Len(pdf)
                 THEN /\ pdf' = delete_page(pdf, idx)
                      /\ page_shift' = ToI16(page_shift - 1)
                      /\ ann_index' = ann_index + 1
                      /\ UNCHANGED <<ann_pc, ann_ret, engine_failed>>
                 ELSE /\ ann_ret' = Some(Err("PdfiumError"))
                      /\ ann_pc' = "done"
                      /\ engine_failed' = TRUE
                      /\ UNCHANGED <<pdf, page_shift, ann_index>>
    /\ UNCHANGED <<differences, saved, notAnnotate>>

\* pdf.rs:360-364 and 374-404: a Different verdict.  get_ok and mark_ok say
\* whether the page fetch and the creation and adding of the overlay succeed.
AnnotateDifferent ==
    /\ ann_pc = "loop"
    /\ ann_index < Len(differences)
    /\ differences[ann_index + 1] # Identical
    /\ \E get_ok \in BOOLEAN, mark_ok \in BOOLEAN :
          LET idx == page_index(ann_index, page_shift)
              seg == differences[ann_index + 1][2]
          IN  /\ fetched' = Append(fetched,
                     [index |-> idx, shift |-> page_shift,
                      page |-> IF idx < Len(pdf) THEN Some(pdf[idx + 1].orig) ELSE None])
              /\ IF get_ok /\ idx < Len(pdf)
                 THEN IF mark_ok
                      THEN /\ pdf' = add_image_object(pdf, idx,
                                        overlay(pdf[idx + 1].width, pdf[idx + 1].height, seg))
                           /\ ann_index' = ann_index + 1
                           /\ UNCHANGED <<ann_pc, ann_ret, engine_failed>>
                      ELSE /\ ann_ret' = Some(Err("UnableToModifyPDF"))
                           /\ ann_pc' = "done"
                           /\ engine_failed' = TRUE
                           /\ UNCHANGED <<pdf, ann_index>>
                 ELSE /\ ann_ret' = Some(Err("PdfiumError"))
                      /\ ann_pc' = "done"
                      /\ engine_failed' = TRUE
                      /\ UNCHANGED <<pdf, ann_index>>
    /\ UNCHANGED <<differences, page_shift, saved, notAnnotate>>

\* pdf.rs:367-371: every verdict is processed; the document is saved
AnnotateSave ==
    /\ ann_pc = "loop"
    /\ ann_index = Len(differences)
    /\ \E ok \in BOOLEAN :
          IF ok
          THEN /\ saved' = Some(pdf)
               /\ ann_ret' = Some(Ok(<<>>))
               /\ UNCHANGED engine_failed
          ELSE /\ ann_ret' = Some(Err("UnableToSavePDF"))
               /\ engine_failed' = TRUE
               /\ UNCHANGED saved
    /\ ann_pc' = "done"
    /\ UNCHANGED <<differences, pdf, ann_index, page_shift, fetched, notAnnotate>>

----------------------------------------------------------------------------
(* FileManager::find_updated_files, files.rs:205-264.                      *)
(* A path is the sequence of names below the root of its tree; a name is   *)
(* <<stem>> or <<stem, extension>>.  A tree maps each path to its node.    *)

\* The latest modification time of a file.
MaxTime == 2

Absent == <<"absent">>
Dir == <<"dir">>
File(mtime) == <<"file", mtime>>
Nodes == {Absent, Dir} \cup {File(t) : t \in 1..MaxTime}

\* The paths of the trees: a.pdf, d, d/b.txt, d/e, d/e/c.pdf.  Each may be
\* missing, a file or a directory.
TreePaths ==
    {<<<<"a", "pdf">>>>,
     <<<<"d">>>>,
     <<<<"d">>, <<"b", "txt">>>>,
     <<<<"d">>, <<"e">>>>,
     <<<<"d">>, <<"e">>, <<"c", "pdf">>>>}

parent(path) == SubSeq(path, 1, Len(path) - 1)
\* Path::extension of the last name of the path
extension(path) ==
    IF Len(path[Len(path)]) = 2 THEN Some(path[Len(path)][2]) ELSE None

\* The trees: below anything but a directory there is nothing.
Trees ==
    {t \in [TreePaths -> Nodes] :
        \A q \in TreePaths : (Len(q) > 1 /\ t[q] # Absent) => t[parent(q)] = Dir}

node_at(tree, path) == IF path \in DOMAIN tree THEN tree[path] ELSE Absent

\* tokio::fs::metadata of a path of the tree: an error of kind
\* NotADirectory when a name on the way is a file, NotFound when the path
\* does not exist.
metadata(tree, path) ==
    IF \E k \in 1..Len(path) - 1 : node_at(tree, SubSeq(path, 1, k))[1] = "file"
    THEN Err("NotADirectory")
    ELSE IF node_at(tree, path) = Absent
         THEN Err("NotFound")
         ELSE Ok(node_at(tree, path))

\* read_dir: the entries of a directory of the tree
read_dir(tree, dir) ==
    {q \in DOMAIN tree : Len(q) = Len(dir) + 1 /\ parent(q) = dir /\ tree[q] # Absent}

\* The pair pushed for an entry: its path in the current tree and the path
\* of the same name in the baseline tree.
association(path) == <<<<"current", path>>, <<"last", path>>>>

\* A test that also takes a file as old as its baseline for updated.
is_newer_pdf_or_equal(current_modified, last_modified, ext) ==
    current_modified >= last_modified /\ ext = Some("pdf")

\* files.rs:222-223
is_newer_pdf(current_modified, last_modified, ext) ==
    current_modified > last_modified /\ ext = Some("pdf")

\* find_updated_files for the directory at path dir of both trees.  The Vec
\* returned is in the order read_dir yields the entries, which the system
\* decides; the model keeps the set of its elements.
RECURSIVE find_updated_files(_, _, _)
find_updated_files(current, last, dir) ==
    LET entry_result(entry) ==
            LET is_file == current[entry][1] = "file"
                last_meta == metadata(last, entry)
            IN  IF is_file
                THEN IF IsOk(last_meta)
                     THEN IF last_meta[2][1] = "file"
                          THEN IF is_newer_pdf(current[entry][2], last_meta[2][2],
                                               extension(entry))
                               THEN Ok({association(entry)})
                               ELSE Ok({})
                          ELSE Ok({association(entry)})
                     ELSE IF last_meta[2] = "NotFound"
                          THEN Ok({association(entry)})
                          ELSE Err("Io")
                ELSE IF IsErr(last_meta) /\ last_meta[2] # "NotFound"
                     THEN Err("Io")
                     ELSE find_updated_files(current, last, entry)
        results == {entry_result(entry) : entry \in read_dir(current, dir)}
    IN  IF \E r \in results : IsErr(r)
        THEN Err("Io")
        ELSE Ok(UNION {r[2] : r \in results})

DetectIdle ==
    /\ current_tree = <<>>
    /\ last_tree = <<>>
    /\ fs_pc = "idle"
    /\ fs_ret = None

DetectInit ==
    /\ current_tree \in Trees
    /\ last_tree \in Trees
    /\ fs_pc = "call"
    /\ fs_ret = None

\* The call find_updated_files(current_path, last_path), files.rs:107
FindUpdatedFiles ==
    /\ fs_pc = "call"
    /\ fs_ret' = Some(find_updated_files(current_tree, last_tree, <<>>))
    /\ fs_pc' = "done"
    /\ UNCHANGED <<current_tree, last_tree, notDetect>>

----------------------------------------------------------------------------
(* compare_pdfs and mark_differences as functions of their arguments and   *)
(* of whether the engine fails, for the batch pass.                        *)

\* compare_pdfs (pdf.rs:178-225) on two load results.  render_fail says
\* whether a render call fails; there is none when a document did not load
\* or the revised document has no page.
compare_pdfs(la, lb, render_fails) ==
    LET o == load_outcome(la, lb)
    IN  IF IsSome(o)
        THEN Unwrap(o)
        ELSE IF render_fails /\ page_count(la[2]) > 0
             THEN Err("UnableToRenderPDF")
             ELSE Ok([k \in 1..page_count(la[2]) |->
                        LET sim == find_min_similarity(la[2][k], lb[2], {})[2]
                        IN  IF sim = PageDifferent
                            THEN from_similarity(sim, None, None)
                            ELSE from_similarity(sim, Some(la[2][k]),
                                                 Some(lb[2][sim[2] + 1]))])

\* pdf.rs:346-365: the loop of mark_differences from position index on
RECURSIVE mark_loop(_, _, _, _)
mark_loop(doc, diffs, index, shift) ==
    IF index >= Len(diffs)
    THEN Ok(doc)
    ELSE LET idx == page_index(index, shift)
         IN  IF idx >= Len(doc)
             THEN Err("PdfiumError")
             ELSE IF diffs[index + 1] = Identical
                  THEN mark_loop(delete_page(doc, idx), diffs, index + 1, ToI16(shift - 1))
                  ELSE mark_loop(add_image_object(doc, idx,
                                     overlay(doc[idx + 1].width, doc[idx + 1].height,
                                             diffs[index + 1][2])),
                                 diffs, index + 1, shift)

\* mark_differences (pdf.rs:335-372) on the load result of in_path: the
\* document saved, or the error.  engine_ok says whether every engine call
\* after the load succeeds.
mark_differences(in_load, diffs, engine_ok) ==
    IF IsErr(in_load)
    THEN Err("UnableToLoadPDF")
    ELSE IF ~engine_ok
         THEN Err("PdfiumError")
         ELSE mark_loop(OriginalDocument(page_count(in_load[2])), diffs, 0, 0)

----------------------------------------------------------------------------
(* FileManager::update and the main loop, files.rs:103-203, main.rs:28-50. *)

\* The passes of the main loop followed.
MaxPasses == 2

\* What a file holds: a document of one or of two pages, or no document.
Contents == {<<"pdf", <<PageA>>>>, <<"pdf", <<PageA, PageB>>>>, <<"garbage">>}
FileWith(mtime, content) == <<"file", mtime, content>>

\* The files of the pass: x.pdf and y.txt, directly below the roots.
PassPaths == {<<<<"x", "pdf">>>>, <<<<"y", "txt">>>>}
\* The current files: y.txt, compared with a baseline only when it has
\* none, holds a document of one page or no document.
CurrentFiles ==
    {f \in [PassPaths -> {FileWith(t, c) : t \in 1..MaxTime, c \in Contents}] :
        f[<<<<"y", "txt">>>>][3] # <<"pdf", <<PageA, PageB>>>>}
\* The baseline files: any file or none for x.pdf; for y.txt none or one old
\* file, since a file of another extension than pdf that has a baseline file
\* is not flagged, whatever that file is (files.rs:222-223).
LastFiles ==
    {f \in [PassPaths -> {Absent} \cup {FileWith(t, c) : t \in 1..MaxTime, c \in Contents}] :
        f[<<<<"y", "txt">>>>] \in {Absent, FileWith(1, <<"garbage">>)}}

EmptyMap == <<>>

\* Pdfium::load_pdf_from_file for a path of a tree
load_pdf_from_file(tree, path) ==
    LET node == node_at(tree, path)
    IN  IF node[1] = "file" /\ node[3][1] = "pdf"
        THEN Ok(node[3][2])
        ELSE Err("PdfiumError")

\* files.rs:106-110: the pairs collected into a HashMap
to_hash_map(pairs) ==
    [k \in {pr[1] : pr \in pairs} |-> CHOOSE v \in {pr[2] : pr \in pairs} : <<k, v>> \in pairs]

\* Comparisons in which the first error is every file's result.
generate_comparisons_abort(files, current, last, failing) ==
    LET res == [q \in DOMAIN files |->
                   compare_pdfs(load_pdf_from_file(current, q[2]),
                                load_pdf_from_file(last, files[q][2]), q \in failing)]
    IN  [q \in DOMAIN files |->
            IF \E r \in DOMAIN files : IsErr(res[r])
            THEN Err(<<"PDFComparisonError", "UnableToLoadPDF">>)
            ELSE res[q]]

\* Comparisons that keep the files of which every page is Identical.
generate_comparisons_keep_all(files, current, last, failing) ==
    LET res == [q \in DOMAIN files |->
                   compare_pdfs(load_pdf_from_file(current, q[2]),
                                load_pdf_from_file(last, files[q][2]), q \in failing)]
    IN  [q \in DOMAIN files |->
            IF IsOk(res[q]) THEN res[q] ELSE Err(<<"PDFComparisonError", res[q][2]>>)]

\* FileManager::generate_comparisons, files.rs:181-203.  failing holds the
\* files for which a rendering fails.
generate_comparisons(files, current, last, failing) ==
    LET res == [q \in DOMAIN files |->
                   compare_pdfs(load_pdf_from_file(current, q[2]),
                                load_pdf_from_file(last, files[q][2]), q \in failing)]
        kept == {q \in DOMAIN files :
                    \/ IsErr(res[q])
                    \/ \E k \in 1..Len(res[q][2]) : res[q][2][k][1] = "Different"}
    IN  [q \in kept |->
            IF IsOk(res[q]) THEN res[q] ELSE Err(<<"PDFComparisonError", res[q][2]>>)]

\* files.rs:159-167: diff_path joined with "<file name>.diff.<timestamp>.pdf"
outpath(path, timestamp) == <<"diff", path[2][Len(path[2])], timestamp>>

\* What mark_differences returns for each task that holds verdicts.
annotations(tasks, current, failing) ==
    [q \in {r \in DOMAIN tasks : IsOk(tasks[r])} |->
        mark_differences(load_pdf_from_file(current, q[2]), tasks[q][2], q \notin failing)]

\* FileManager::generate_updated_pdfs, files.rs:149-179.  failing holds the
\* files for which an engine call of mark_differences fails.
generate_updated_pdfs(tasks, current, timestamp, failing) ==
    LET ann == annotations(tasks, current, failing)
    IN  [q \in DOMAIN tasks |->
            IF IsErr(tasks[q])
            THEN tasks[q]
            ELSE IF IsErr(ann[q])
                 THEN Err(<<"PDFEditorError", ann[q][2]>>)
                 ELSE Ok(outpath(q, timestamp))]

\* The files mark_differences saved below diff_path, added to those there.
saved_diffs(old, tasks, current, timestamp, failing) ==
    LET ann == annotations(tasks, current, failing)
        done == {q \in DOMAIN ann : IsOk(ann[q])}
        new == {outpath(q, timestamp) : q \in done}
    IN  [o \in DOMAIN old \cup new |->
            IF o \in new
            THEN ann[CHOOSE q \in done : outpath(q, timestamp) = o][2]
            ELSE old[o]]

\* FileManager::update_changed_pdfs, files.rs:122-147.  no_dir and no_copy
\* hold the files for which create_dir_all and copy fail.
update_changed_pdfs(pdfs, associations, no_dir, no_copy) ==
    [q \in DOMAIN pdfs |->
        IF IsErr(pdfs[q])
        THEN pdfs[q]
        ELSE IF q \in no_dir
             THEN Err(<<"Io", "create_dir_all">>)
             ELSE IF q \in no_copy THEN Err(<<"Io", "copy">>) ELSE pdfs[q]]

\* files.rs:136: copy runs for every annotated file, whatever create_dir_all
\* returned; a copy that succeeds leaves the contents of the current file at
\* the baseline path.  tokio::fs::copy leaves the modification time to the
\* platform: the time of the copy (Linux), or that of the source when keeps
\* (macOS, Windows).
copied_files(last, pdfs, associations, current, timestamp, no_copy, keeps) ==
    LET done == {q \in DOMAIN pdfs : IsOk(pdfs[q]) /\ q \notin no_copy}
    IN  [t \in DOMAIN last |->
            IF \E q \in done : associations[q][2] = t
            THEN FileWith(IF keeps THEN current[t][2] ELSE timestamp, current[t][3])
            ELSE last[t]]

PassIdle ==
    /\ current_files = <<>>
    /\ last_files = <<>>
    /\ diff_files = <<>>
    /\ now = 0
    /\ pass_pc = "idle"
    /\ updated_files = EmptyMap
    /\ comparsions = EmptyMap
    /\ updated_pdfs = EmptyMap
    /\ pass_ret = None
    /\ passes = 0
    /\ last_before = <<>>
    /\ render_fail = {}
    /\ engine_fail = {}
    /\ mkdir_fail = {}
    /\ copy_fail = {}
    /\ copy_kept = FALSE
    /\ prev_ret = None

\* The clock when the loop starts: at the newest modification time a file
\* may have, or one tick before it (a file dated in the future).
ClockStarts == {MaxTime - 1, MaxTime}

\* main.rs:19-28: the file manager is built
PassInit ==
    /\ current_files \in CurrentFiles
    /\ last_files \in LastFiles
    /\ diff_files = <<>>
    /\ now \in ClockStarts
    /\ pass_pc = "detect"
    /\ updated_files = EmptyMap
    /\ comparsions = EmptyMap
    /\ updated_pdfs = EmptyMap
    /\ pass_ret = None
    /\ passes = 0
    /\ last_before = last_files
    /\ render_fail = {}
    /\ engine_fail = {}
    /\ mkdir_fail = {}
    /\ copy_fail = {}
    /\ copy_kept = FALSE
    /\ prev_ret = None

\* files.rs:106-110: update detection; its error is the error of the pass
PassDetect ==
    /\ pass_pc = "detect"
    /\ LET r == find_updated_files(current_files, last_files, <<>>)
       IN  IF IsErr(r)
           THEN /\ pass_ret' = Some(Err(r[2]))
                /\ pass_pc' = "report"
                /\ UNCHANGED updated_files
           ELSE /\ updated_files' = to_hash_map(r[2])
                /\ pass_pc' = "compare"
                /\ UNCHANGED pass_ret
    /\ UNCHANGED <<current_files, last_files, diff_files, now, comparsions, updated_pdfs,
                   passes, last_before, render_fail, engine_fail, mkdir_fail, copy_fail,
                   copy_kept, prev_ret, notPass>>

\* files.rs:111: generate_comparisons.  A rendering can fail for the files
\* of which both documents load and the revised one has a page.
PassCompare ==
    /\ pass_pc = "compare"
    /\ \E failing \in SUBSET {q \in DOMAIN updated_files :
                                /\ IsOk(load_pdf_from_file(current_files, q[2]))
                                /\ IsOk(load_pdf_from_file(last_files, updated_files[q][2]))
                                /\ page_count(load_pdf_from_file(current_files, q[2])[2]) > 0} :
          /\ comparsions' = generate_comparisons(updated_files, current_files, last_files,
                                                 failing)
          /\ render_fail' = failing
    /\ pass_pc' = "annotate"
    /\ UNCHANGED <<current_files, last_files, diff_files, now, updated_files, updated_pdfs,
                   pass_ret, passes, last_before, engine_fail, mkdir_fail, copy_fail,
                   copy_kept, prev_ret, notPass>>

\* files.rs:112: generate_updated_pdfs.  An engine call can fail for every
\* file that has verdicts.
PassAnnotate ==
    /\ pass_pc = "annotate"
    /\ \E failing \in SUBSET {q \in DOMAIN comparsions : IsOk(comparsions[q])} :
          /\ updated_pdfs' = generate_updated_pdfs(comparsions, current_files, now, failing)
          /\ diff_files' = saved_diffs(diff_files, comparsions, current_files, now, failing)
          /\ engine_fail' = failing
    /\ pass_pc' = "copy"
    /\ UNCHANGED <<current_files, last_files, now, updated_files, comparsions, pass_ret,
                   passes, last_before, render_fail, mkdir_fail, copy_fail,
                   copy_kept, prev_ret, notPass>>

\* files.rs:113-119: update_changed_pdfs, and the batch outcome returned
PassCopy ==
    /\ pass_pc = "copy"
    /\ \E no_dir \in SUBSET {q \in DOMAIN updated_pdfs : IsOk(updated_pdfs[q])},
          no_copy \in SUBSET {q \in DOMAIN updated_pdfs : IsOk(updated_pdfs[q])},
          keeps \in BOOLEAN :
          /\ keeps => \E q \in DOMAIN updated_pdfs : IsOk(updated_pdfs[q]) /\ q \notin no_copy
          /\ copy_kept' = keeps
          /\ pass_ret' = Some(Ok(update_changed_pdfs(updated_pdfs, updated_files,
                                                     no_dir, no_copy)))
          /\ last_files' = copied_files(last_files, updated_pdfs, updated_files,
                                        current_files, now, no_copy, keeps)
          /\ mkdir_fail' = no_dir
          /\ copy_fail' = no_copy
    /\ pass_pc' = "report"
    /\ UNCHANGED <<current_files, diff_files, now, updated_files, comparsions, updated_pdfs,
                   passes, last_before, render_fail, engine_fail, prev_ret, notPass>>

\* main.rs:29-49: the outcome lines are printed, the loop sleeps for the
\* interval and the next pass begins.
PassReportAndSleep ==
    /\ pass_pc = "report"
    /\ passes + 1 < MaxPasses
    /\ passes' = passes + 1
    /\ now' = now + 1
    /\ pass_pc' = "detect"
    /\ updated_files' = EmptyMap
    /\ comparsions' = EmptyMap
    /\ updated_pdfs' = EmptyMap
    /\ pass_ret' = None
    /\ last_before' = last_files
    /\ render_fail' = {}
    /\ engine_fail' = {}
    /\ mkdir_fail' = {}
    /\ copy_fail' = {}
    /\ copy_kept' = FALSE
    /\ prev_ret' = pass_ret
    /\ UNCHANGED <<current_files, last_files, diff_files, notPass>>

----------------------------------------------------------------------------
(* C4 *)

\* The maximal runs of consecutive hits of a stream, as index pairs.
MaximalRuns(s) ==
    {r \in (1..Len(s)) \X (1..Len(s)) :
        /\ r[1] <= r[2]
        /\ \A k \in r[1]..r[2] : s[k][2]
        /\ (r[1] = 1 \/ ~s[r[1] - 1][2])
        /\ (r[2] = Len(s) \/ ~s[r[2] + 1][2])}

\* out lists the maximal runs of s in stream order, each as
\* (position of its first step, position of its last step).
IsRunEncoding(out, s) ==
    /\ Len(out) = Cardinality(MaximalRuns(s))
    /\ \A k \in 1..Len(out) :
          \E r \in MaximalRuns(s) :
             /\ out[k] = <<s[r[1]][1], s[r[2]][1]>>
             /\ Cardinality({q \in MaximalRuns(s) : q[1] < r[1]}) = k - 1

\* C4: after finish(), the output is exactly the list of maximal runs of
\* consecutive hit=true steps of the stream fed, in stream order, each as
\* (first position, last position), a run still open at the end included;
\* all-true over 0..1 gives <<(0,1)>>, all-false gives the empty list, and
\* (false,true,true,false,true) gives two segments, the second a point.
C4_RunLengthEncoding ==
    finished =>
        /\ IsRunEncoding(segments, fed)
        /\ (fed = <<<<0, TRUE>>, <<1, TRUE>>>> => segments = <<<<0, 1>>>>)
        /\ ((\A k \in 1..Len(fed) : ~fed[k][2]) => segments = <<>>)
        /\ ([k \in 1..Len(fed) |-> fed[k][2]] = <<FALSE, TRUE, TRUE, FALSE, TRUE>>
              => /\ Len(segments) = 2
                 /\ segments[1] = <<fed[2][1], fed[3][1]>>
                 /\ segments[2] = <<fed[5][1], fed[5][1]>>)

\* A finished stream with a closed run, a miss, and a run open at the end.
C4_Witness ==
    /\ finished
    /\ [k \in 1..Len(fed) |-> fed[k][2]] = <<FALSE, TRUE, TRUE, FALSE, TRUE>>
    /\ Len(segments) = 2

----------------------------------------------------------------------------
(* C6 *)

\* C6: compare_images returns Different (Incomparable) whenever the rasters
\* differ in width or height, and otherwise Similar(n) with n the number of
\* pixel positions at which they differ, whatever the order in which the
\* pixel tasks incremented the counter; a raster against itself gives 0 and
\* rasters differing everywhere give width*height.
C6_PixelCount ==
    /\ px_pc = "loop" =>
          similarity = Cardinality(DifferingPositions(img_a, img_b) \ pending)
    /\ px_pc = "done" =>
          /\ dimensions(img_a) # dimensions(img_b) => px_ret = Some(SimDifferent)
          /\ dimensions(img_a) = dimensions(img_b) =>
                /\ px_ret = Some(SimSimilar(Cardinality(DifferingPositions(img_a, img_b))))
                /\ px_ret = Some(compare_images(img_a, img_b))
                /\ img_a = img_b => px_ret = Some(SimSimilar(0))
                /\ (\A y \in 1..img_a.height, x \in 1..img_a.width :
                        img_a.px[y][x] # img_b.px[y][x])
                      => px_ret = Some(SimSimilar(img_a.width * img_a.height))

\* Two equal-size rasters of several pixels differing everywhere, compared.
C6_Witness ==
    /\ px_pc = "done"
    /\ img_a.width = MaxWidth /\ img_a.height = MaxHeight
    /\ dimensions(img_a) = dimensions(img_b)
    /\ px_ret = Some(SimSimilar(MaxWidth * MaxHeight))

----------------------------------------------------------------------------
(* C3 *)

\* What the matcher must return for rendering img against baseline doc_b:
\* the least distance under "Different above every Similar", at the lowest
\* index attaining it, or no match.
ExpectedMatch(img, doc_b) ==
    LET dist == [i \in 0..page_count(doc_b) - 1 |-> compare_images(img, doc_b[i + 1])]
        comparable == {i \in DOMAIN dist : dist[i] # SimDifferent}
    IN  IF comparable = {}
        THEN PageDifferent
        ELSE LET d == CHOOSE n \in {dist[i][2] : i \in comparable} :
                         \A i \in comparable : n <= dist[i][2]
                 j == CHOOSE i \in comparable :
                         /\ dist[i][2] = d
                         /\ \A k \in comparable : dist[k][2] = d => i <= k
             IN  PageSimilar(j, d)

\* C3: find_min_similarity returns Similar(j, d) with d the minimum distance
\* over all baseline pages and j the lowest index attaining it, and
\* Different (no match) exactly when the baseline has no page or every
\* baseline page has other dimensions than the revised page.
C3_MinimumLowestIndex ==
    \A k \in 1..Len(page_similarities) :
        /\ page_similarities[k] = ExpectedMatch(pdf_a[2][k], pdf_b[2])
        /\ page_similarities[k] = PageDifferent <=>
              \/ page_count(pdf_b[2]) = 0
              \/ \A i \in 1..page_count(pdf_b[2]) :
                    dimensions(pdf_b[2][i]) # dimensions(pdf_a[2][k])

\* A revised page matched to the first of two baseline pages at the same
\* nonzero distance, and one matched to the second, closer, baseline page.
C3_Witness ==
    /\ Len(page_similarities) = 2
    /\ pdf_a[2] = <<PageA, PageC>>
    /\ pdf_b[2] = <<PageB, PageB>>
    /\ page_similarities[1] = PageSimilar(0, 3)

----------------------------------------------------------------------------
(* C5 *)

\* The stream from_similarity feeds the builder for rasters a and b: one
\* step a row, at index / (rows - 1), hit when the rows differ.
RowStream(a, b) ==
    [k \in 1..a.height |->
        <<F64Div(k - 1, a.height - 1),
          \E x \in 1..a.width : a.px[k][x] # b.px[k][x]>>]

\* C5: with the baseline loaded, the verdict of a revised page is Identical
\* exactly when the matcher returned Similar(j, 0); Different with the one
\* segment (0,1) when it returned no match; and for Similar(j, n), n > 0,
\* Different with the run-length encoding of the row-by-row inequality of
\* the revised page and baseline page j, which is never empty.
C5_VerdictFromMatch ==
    \A k \in 1..Len(verdicts) :
        LET sim == page_similarities[k]
        IN  /\ verdicts[k] = Identical <=> (sim # PageDifferent /\ sim[3] = 0)
            /\ sim = PageDifferent => verdicts[k] = Different(<<<<F64(0), F64(1)>>>>)
            /\ (sim # PageDifferent /\ sim[3] > 0) =>
                  /\ verdicts[k][1] = "Different"
                  /\ verdicts[k][2] # <<>>
                  /\ IsRunEncoding(verdicts[k][2],
                                   RowStream(pdf_a[2][k], pdf_b[2][sim[2] + 1]))

\* A returned verdict list holding an identical page and a page whose first
\* and last rows differ from its match.
C5_Witness ==
    /\ cmp_pc = "done"
    /\ cmp_ret = Some(Ok(verdicts))
    /\ Len(verdicts) = 2
    /\ verdicts[1] = Identical
    /\ verdicts[2] = Different(<<<<F64(0), F64(0)>>, <<F64(1), F64(1)>>>>)

----------------------------------------------------------------------------
(* C7 *)

\* C7: when the revised document loads and the baseline fails to open,
\* compare_pdfs returns Ok with one verdict a revised page, each Different
\* with the one segment (0,1), and renders no page; when the revised
\* document fails to open it returns an error.
C7_BaselineLoadFailure ==
    cmp_pc = "done" =>
        /\ (IsOk(pdf_a) /\ IsErr(pdf_b)) =>
              /\ cmp_ret = Some(Ok([k \in 1..page_count(pdf_a[2]) |->
                                       Different(<<<<F64(0), F64(1)>>>>)]))
              /\ renders = 0
        /\ IsErr(pdf_a) => (IsSome(cmp_ret) /\ IsErr(Unwrap(cmp_ret)))

\* A revised document of several pages compared with a baseline that does
\* not open.
C7_Witness ==
    /\ cmp_pc = "done"
    /\ IsOk(pdf_a) /\ page_count(pdf_a[2]) = MaxPages
    /\ IsErr(pdf_b)
    /\ IsOk(Unwrap(cmp_ret))

----------------------------------------------------------------------------
(* C8 *)

\* C8: once any rendering has failed, of a revised or of a baseline page,
\* during matching or during the later verdict loop, compare_pdfs has
\* returned an error and no verdict list; no failing page is passed over.
C8_RenderFailureAborts ==
    render_failed =>
        /\ cmp_pc = "done"
        /\ IsSome(cmp_ret) /\ IsErr(Unwrap(cmp_ret))

\* A rendering fails in the verdict loop, after every page was matched.
C8_Witness ==
    /\ render_failed
    /\ cmp_pc = "done"
    /\ Len(page_similarities) = MaxPages
    /\ Len(verdicts) = 1

----------------------------------------------------------------------------
(* C1 *)

\* The number of Identical verdicts before position i (0-based).
IdenticalBefore(i) == Cardinality({k \in 1..i : differences[k] = Identical})

\* The indices fetched satisfy the page-shift rule: verdict i is processed
\* at index i + page_shift, page_shift being minus the number of Identical
\* verdicts before i, and the page there is original page i.
ShiftRule ==
    \A k \in 1..Len(fetched) :
        /\ fetched[k].shift = -IdenticalBefore(k - 1)
        /\ fetched[k].index = (k - 1) + fetched[k].shift
        /\ fetched[k].page = Some(k - 1)

\* The verdicts are [Identical, Different, Identical, Different] and all
\* four have been processed.
ExampleProcessed ==
    /\ [k \in 1..Len(differences) |-> differences[k] = Identical]
          = <<TRUE, FALSE, TRUE, FALSE>>
    /\ Len(fetched) = 4

\* C1 (as stated): the page index handed to the engine when verdict i is
\* processed is i + page_shift, page_shift being minus the number of
\* Identical verdicts before i, and the page at that index is original page
\* i; verdicts [Identical, Different, Identical, Different] use indices
\* [0, 0, 0, 1].
C1_AsStated ==
    /\ ShiftRule
    /\ ExampleProcessed => [k \in 1..4 |-> fetched[k].index] = <<0, 0, 0, 1>>

\* C1 (amended): the same rule, under which the verdicts [Identical,
\* Different, Identical, Different] use indices [0, 0, 1, 1]: the third
\* verdict is processed after one deletion, at index 2 - 1.
C1_PageShiftInvariant ==
    /\ ShiftRule
    /\ ExampleProcessed => [k \in 1..4 |-> fetched[k].index] = <<0, 0, 1, 1>>

\* The four verdicts of the example, all processed and the document saved.
C1_Witness ==
    /\ ExampleProcessed
    /\ [k \in 1..4 |-> fetched[k].index] = <<0, 0, 1, 1>>
    /\ ann_pc = "done"
    /\ IsSome(saved)

----------------------------------------------------------------------------
(* C2 *)

\* The original pages whose verdict is Different, in order.
DifferentPages == {i \in 0..Len(differences) - 1 : differences[i + 1] # Identical}

\* C2: when mark_differences has processed every verdict and saved, the
\* saved document holds exactly the original pages whose verdict is
\* Different, in their original order, each with exactly one overlay, built
\* from its own segments; the Identical pages are absent.  It fails only
\* when an engine call failed.
C2_SavedDocument ==
    ann_pc = "done" =>
        /\ ~engine_failed => ann_ret = Some(Ok(<<>>))
        /\ ann_ret = Some(Ok(<<>>)) =>
              /\ IsSome(saved)
              /\ Len(Unwrap(saved)) = Cardinality(DifferentPages)
              /\ {Unwrap(saved)[k].orig : k \in 1..Len(Unwrap(saved))} = DifferentPages
              /\ \A k \in 1..Len(Unwrap(saved)) :
                    LET pg == Unwrap(saved)[k]
                    IN  /\ \A j \in 1..k - 1 : Unwrap(saved)[j].orig < pg.orig
                        /\ Len(pg.overlays) = 1
                        /\ pg.overlays[1].segments = differences[pg.orig + 1][2]
                        /\ pg.overlays[1]
                             = overlay(pg.width, pg.height, differences[pg.orig + 1][2])

\* A saved document of two pages, out of four, the first deleted page
\* lying before them and the second between them.
C2_Witness ==
    /\ ann_pc = "done"
    /\ ann_ret = Some(Ok(<<>>))
    /\ Len(differences) = 4
    /\ [k \in 1..Len(Unwrap(saved)) |-> Unwrap(saved)[k].orig] = <<1, 3>>
    /\ Unwrap(saved)[1].overlays[1].painted = 5..9

----------------------------------------------------------------------------
(* C9 *)

\* Some entry of the current tree lies, in the baseline tree, below a file:
\* the only filesystem error other than "not found" of these trees.
OtherErrorOccurs ==
    \E q \in TreePaths :
        /\ current_tree[q] # Absent
        /\ \E k \in 1..Len(q) - 1 : last_tree[SubSeq(q, 1, k)][1] = "file"

\* The files of the current tree the claim names.
FlaggedFiles ==
    {q \in TreePaths :
        /\ current_tree[q][1] = "file"
        /\ \/ /\ last_tree[q][1] = "file"
              /\ current_tree[q][2] > last_tree[q][2]
              /\ extension(q) = Some("pdf")
           \/ last_tree[q] = Absent
           \/ last_tree[q] = Dir}

\* C9: on trees where no filesystem error other than "not found" occurs,
\* find_updated_files returns exactly the pairs (current file, baseline path
\* of the same name) of the files that are strictly newer than a baseline
\* file and have extension pdf, or whose baseline counterpart is missing at
\* any depth, or whose baseline counterpart is a directory; nothing else,
\* and no directory.
C9_UpdatedFiles ==
    (fs_pc = "done" /\ ~OtherErrorOccurs) =>
        /\ fs_ret = Some(Ok({association(q) : q \in FlaggedFiles}))
        /\ \A pr \in Unwrap(fs_ret)[2] : current_tree[pr[1][2]][1] = "file"

\* A call that returns a newer pdf, a file of another extension in a
\* directory missing from the baseline, and leaves out a newer text file.
C9_Witness ==
    /\ fs_pc = "done"
    /\ current_tree[<<<<"d">>, <<"b", "txt">>>>] = File(2)
    /\ last_tree[<<<<"d">>, <<"b", "txt">>>>] = File(1)
    /\ current_tree[<<<<"d">>, <<"e">>, <<"c", "pdf">>>>] = File(1)
    /\ last_tree[<<<<"d">>, <<"e">>>>] = Absent
    /\ current_tree[<<<<"a", "pdf">>>>] = File(2)
    /\ last_tree[<<<<"a", "pdf">>>>] = File(1)
    /\ fs_ret = Some(Ok({association(<<<<"a", "pdf">>>>),
                         association(<<<<"d">>, <<"e">>, <<"c", "pdf">>>>)}))

----------------------------------------------------------------------------
(* C10 *)

\* The files the update detector flagged in this pass.
Flagged == DOMAIN updated_files

\* The flagged files for which something failed in this pass: the load of
\* the file, a rendering, an engine call of the annotator (its load, a page
\* fetch, the overlay, the save), create_dir_all or the copy.
FailedFiles ==
    {q \in Flagged : IsErr(load_pdf_from_file(current_files, q[2]))}
        \cup render_fail \cup engine_fail \cup mkdir_fail \cup copy_fail

\* The pass as it would have run with q the only flagged file: the batch
\* outcome, and the baseline file of q afterwards.
Alone(q) ==
    LET files == [r \in {q} |-> updated_files[q]]
        tasks == generate_comparisons(files, current_files, last_before,
                                      render_fail \cap {q})
        pdfs == generate_updated_pdfs(tasks, current_files, now, engine_fail \cap {q})
    IN  [outcome |-> update_changed_pdfs(pdfs, files, mkdir_fail \cap {q},
                                         copy_fail \cap {q}),
         baseline |-> copied_files(last_before, pdfs, files, current_files, now,
                                   copy_fail \cap {q}, copy_kept)[updated_files[q][2]]]

\* C10: a failure to load, render, annotate, save or copy one flagged file
\* is the Err outcome of that file and of no other: update still returns Ok
\* with a batch outcome, in which every flagged file has the outcome, and on
\* disk the baseline copy, it would have had as the only flagged file.
C10_FailureIsolation ==
    (pass_pc = "report" /\ IsSome(pass_ret)) =>
        /\ IsOk(Unwrap(pass_ret))
        /\ LET outcome == Unwrap(pass_ret)[2]
           IN  /\ DOMAIN outcome \subseteq Flagged
               /\ \A q \in FailedFiles : q \in DOMAIN outcome /\ IsErr(outcome[q])
               /\ \A q \in DOMAIN outcome : IsErr(outcome[q]) => q \in FailedFiles
               /\ \A q \in Flagged :
                     LET alone == Alone(q)
                     IN  /\ q \in DOMAIN outcome <=> q \in DOMAIN alone.outcome
                         /\ q \in DOMAIN outcome => outcome[q] = alone.outcome[q]
                         /\ last_files[updated_files[q][2]] = alone.baseline

\* A pass with two flagged files: a rendering of x.pdf fails, and y.txt is
\* annotated and copied to the baseline.
C10_Witness ==
    /\ pass_pc = "report"
    /\ Cardinality(Flagged) = 2
    /\ render_fail = {<<"current", <<<<"x", "pdf">>>>>>}
    /\ IsErr(Unwrap(pass_ret)[2][<<"current", <<<<"x", "pdf">>>>>>])
    /\ Unwrap(pass_ret)[2][<<"current", <<<<"y", "txt">>>>>>]
          = Ok(outpath(<<"current", <<<<"y", "txt">>>>>>, now))
    /\ last_files[<<<<"y", "txt">>>>] = FileWith(now, current_files[<<<<"y", "txt">>>>][3])
    /\ last_before[<<<<"y", "txt">>>>] = Absent

----------------------------------------------------------------------------
(* C11 *)

\* The verdicts of a flagged file in this pass, or the comparison's error.
VerdictsOf(q) ==
    compare_pdfs(load_pdf_from_file(current_files, q[2]),
                 load_pdf_from_file(last_before, updated_files[q][2]), q \in render_fail)

\* The flagged files whose comparison succeeded without a Different page:
\* every page matches a baseline page exactly, or there is no page.
Unchanged ==
    {q \in Flagged :
        LET res == VerdictsOf(q)
        IN  IsOk(res) /\ \A k \in 1..Len(res[2]) : res[2][k] = Identical}

\* An entry of the batch outcome: Ok with the annotated output path of the
\* file, or Err with an error of the comparison, the annotator or the copy.
IsOutcomeEntry(q, entry) ==
    \/ entry = Ok(outpath(q, now))
    \/ /\ IsErr(entry)
       /\ entry[2][1] \in {"PDFComparisonError", "PDFEditorError", "Io"}

\* C11 as stated: in every pass whose update detection succeeds, every
\* flagged file has an entry in the batch outcome update returns, Ok with the
\* annotated output path or Err with the error.
C11_AsStated ==
    (pass_pc = "report" /\ IsSome(pass_ret) /\ IsOk(Unwrap(pass_ret))) =>
        LET outcome == Unwrap(pass_ret)[2]
        IN  /\ DOMAIN outcome = Flagged
            /\ \A q \in Flagged : IsOutcomeEntry(q, outcome[q])

\* C11: in every pass whose update detection succeeds, the batch outcome
\* update returns has one entry, Ok with the annotated output path or Err
\* with the error, for exactly the flagged files whose comparison failed or
\* found a Different page; a flagged file whose pages are all Identical to
\* baseline pages has no entry, no annotated copy and no baseline copy.
C11_OutcomeEntries ==
    (pass_pc = "report" /\ IsSome(pass_ret) /\ IsOk(Unwrap(pass_ret))) =>
        LET outcome == Unwrap(pass_ret)[2]
            unchanged == Unchanged
        IN  /\ DOMAIN outcome = Flagged \ unchanged
            /\ \A q \in DOMAIN outcome : IsOutcomeEntry(q, outcome[q])
            /\ \A q \in unchanged :
                  /\ outpath(q, now) \notin DOMAIN diff_files
                  /\ last_files[updated_files[q][2]] = last_before[updated_files[q][2]]

\* A pass that flagged x.pdf, touched since the baseline copy but with the
\* same pages, and y.txt, missing from the baseline: only y.txt has an entry.
C11_Witness ==
    /\ pass_pc = "report"
    /\ IsSome(pass_ret)
    /\ Flagged = {<<"current", <<<<"x", "pdf">>>>>>, <<"current", <<<<"y", "txt">>>>>>}
    /\ Unchanged = {<<"current", <<<<"x", "pdf">>>>>>}
    /\ DOMAIN Unwrap(pass_ret)[2] = {<<"current", <<<<"y", "txt">>>>>>}

----------------------------------------------------------------------------
(* C12 *)

\* 0 <= f <= 1 for an f64: false of NaN and of infinity, as every f64
\* comparison with NaN is.
InUnit(f) == f[2] > 0 /\ 0 <= f[1] /\ f[1] <= f[2]

\* a <= b for f64 values that are not negative
F64Le(a, b) == a[2] > 0 /\ b[2] > 0 /\ a[1] * b[2] <= b[1] * a[2]

\* 0 <= start <= end <= 1 for every segment of the list
SegmentsInUnit(segs) ==
    \A n \in 1..Len(segs) :
        InUnit(segs[n][1]) /\ InUnit(segs[n][2]) /\ F64Le(segs[n][1], segs[n][2])

\* The verdicts from_similarity built row by row from rasters of one row.
SingleRowVerdicts ==
    {k \in 1..Len(verdicts) :
        /\ page_similarities[k] # PageDifferent
        /\ page_similarities[k][3] > 0
        /\ pdf_a[2][k].height = 1}

\* C12 as stated: a page of one row that differs from its match is fed to
\* the builder at position 0.0, so its verdict is the one segment (0,0), and
\* every segment of every verdict has 0 <= start <= end <= 1.
C12_AsStated ==
    /\ \A k \in SingleRowVerdicts : verdicts[k] = Different(<<<<F64(0), F64(0)>>>>)
    /\ \A k \in 1..Len(verdicts) :
          verdicts[k][1] = "Different" => SegmentsInUnit(verdicts[k][2])

\* What the code does instead: a differing page of one row has the one
\* segment (NaN, NaN), from 0.0 / 0.0; the segments of every page of two or
\* more rows are within 0 <= start <= end <= 1.
C12_SingleRowNaN ==
    /\ \A k \in SingleRowVerdicts : verdicts[k] = Different(<<<<NaN, NaN>>>>)
    /\ \A k \in (1..Len(verdicts)) \ SingleRowVerdicts :
          verdicts[k][1] = "Different" => SegmentsInUnit(verdicts[k][2])

\* compare_pdfs returned the verdict of a one-row page whose pixels differ
\* from those of the one-row baseline page.
C12_Witness ==
    /\ cmp_pc = "done"
    /\ pdf_a = Ok(<<PageE>>)
    /\ pdf_b = Ok(<<PageD>>)
    /\ cmp_ret = Some(Ok(<<Different(<<<<NaN, NaN>>>>)>>))

----------------------------------------------------------------------------
(* C13 *)

\* The flagged files for which the batch outcome r holds Ok.
OkFiles(r) ==
    IF IsSome(r) /\ IsOk(Unwrap(r))
    THEN {q \in DOMAIN Unwrap(r)[2] : IsOk(Unwrap(r)[2][q])}
    ELSE {}

\* The next pass has run its update detection.
NextPassDetected == passes > 0 /\ pass_pc \in {"compare", "annotate", "copy", "report"}

\* The files whose baseline path was written in this pass.
Written == {p \in PassPaths : last_files[p] # last_before[p]}

\* The baseline path is written only for a file whose comparison and
\* annotation both succeeded in this pass.
WrittenAfterSuccess ==
    \A p \in Written :
        LET q == <<"current", p>>
        IN  /\ q \in DOMAIN comparsions /\ IsOk(comparsions[q])
            /\ q \in DOMAIN updated_pdfs /\ IsOk(updated_pdfs[q])

\* C13 as stated (no step of the model writes a tree from outside): when a
\* pass ends with outcome Ok for a flagged file, the baseline path holds a
\* copy of the revised file modified no earlier than the revised file, and
\* the next pass does not flag the file; and a baseline path is written in a
\* pass only after the file's comparison and annotation succeeded in it.
C13_AsStated ==
    /\ pass_pc = "report" =>
          /\ \A q \in OkFiles(pass_ret) :
                /\ last_files[q[2]][1] = "file"
                /\ last_files[q[2]][3] = current_files[q[2]][3]
                /\ last_files[q[2]][2] >= current_files[q[2]][2]
          /\ WrittenAfterSuccess
    /\ NextPassDetected => \A q \in OkFiles(prev_ret) : q \notin Flagged

\* What the code does: the copy holds the contents of the revised file and
\* is modified at the time of the copy, or when the revised file was if the
\* platform's copy keeps that time; it is older than a revised file dated
\* after the copy, and such a file of extension pdf, and no other file with
\* outcome Ok, is flagged again by the next pass.  A baseline path is
\* written only after comparison and annotation succeeded.
C13_CopyDatedAtCopy ==
    /\ pass_pc = "report" =>
          /\ \A q \in OkFiles(pass_ret) :
                /\ last_files[q[2]] = FileWith(IF copy_kept THEN current_files[q[2]][2]
                                                            ELSE now,
                                               current_files[q[2]][3])
                /\ last_files[q[2]][2] >= current_files[q[2]][2]
                      <=> (copy_kept \/ current_files[q[2]][2] <= now)
          /\ WrittenAfterSuccess
    /\ NextPassDetected =>
          \A q \in OkFiles(prev_ret) :
              q \in Flagged <=> /\ current_files[q[2]][2] > now - 1
                                /\ last_before[q[2]][2] = now - 1
                                /\ q[2][Len(q[2])] = <<"x", "pdf">>

\* The second pass has run its detection after a pass that ended with
\* outcome Ok for x.pdf and copied it at that pass's time: x.pdf is not
\* flagged again.
C13_Witness ==
    /\ passes = 1
    /\ pass_pc = "compare"
    /\ <<"current", <<<<"x", "pdf">>>>>> \in OkFiles(prev_ret)
    /\ last_files[<<<<"x", "pdf">>>>] = FileWith(now - 1, current_files[<<<<"x", "pdf">>>>][3])
    /\ <<"current", <<<<"x", "pdf">>>>>> \notin Flagged

----------------------------------------------------------------------------
(* The functions compare_pdfs and mark_differences used by the pass agree  *)
(* with the calls followed step by step.                                   *)

\* Under SpecCompare: what the call returns is compare_pdfs of the two load
\* results.
ComparePdfsAgrees ==
    cmp_pc = "done" => cmp_ret = Some(compare_pdfs(pdf_a, pdf_b, render_failed))

\* Under SpecAnnotate: what the call saves is what mark_differences gives.
MarkDifferencesAgrees ==
    (ann_pc = "done" /\ ~engine_failed) =>
        saved = Some(mark_differences(Ok(OriginalDocument(Len(differences))),
                                      differences, TRUE)[2])

----------------------------------------------------------------------------
(* The specifications. *)

InitBuilder ==
    BuilderInit /\ PixelIdle /\ CompareIdle /\ AnnotateIdle /\ DetectIdle /\ PassIdle
NextBuilder == BuilderStep \/ BuilderFinish
SpecBuilder == InitBuilder /\ [][NextBuilder]_vars

InitPixels ==
    PixelInit /\ BuilderInit /\ CompareIdle /\ AnnotateIdle /\ DetectIdle /\ PassIdle
NextPixels == CompareImagesMismatch \/ CompareImagesFork \/ PixelTask \/ CompareImagesJoin
SpecPixels == InitPixels /\ [][NextPixels]_vars

InitCompare ==
    CompareInit /\ BuilderInit /\ PixelIdle /\ AnnotateIdle /\ DetectIdle /\ PassIdle
NextCompare == CompareLoad \/ MatchPage \/ MatchCollected \/ VerdictPage \/ VerdictCollected
SpecCompare == InitCompare /\ [][NextCompare]_vars

InitAnnotate ==
    AnnotateInit /\ BuilderInit /\ PixelIdle /\ CompareIdle /\ DetectIdle /\ PassIdle
NextAnnotate == AnnotateLoad \/ AnnotateIdentical \/ AnnotateDifferent \/ AnnotateSave
SpecAnnotate == InitAnnotate /\ [][NextAnnotate]_vars

InitDetect ==
    DetectInit /\ BuilderInit /\ PixelIdle /\ CompareIdle /\ AnnotateIdle /\ PassIdle
NextDetect == FindUpdatedFiles
SpecDetect == InitDetect /\ [][NextDetect]_vars

InitUpdate ==
    PassInit /\ BuilderInit /\ PixelIdle /\ CompareIdle /\ AnnotateIdle /\ DetectIdle
NextUpdate == PassDetect \/ PassCompare \/ PassAnnotate \/ PassCopy \/ PassReportAndSleep
SpecUpdate == InitUpdate /\ [][NextUpdate]_vars
====
